---- MODULE Spec2Model ----
(***************************************************************************)
(* Model of ml-service: the StockPredictor model store (startup load,      *)
(* train, save, predict and its forecast loop, cleanup), the /predict      *)
(* endpoint that formats the forecast, the StockDataFetcher cache and the  *)
(* DataProcessor cleaning pipeline.  Each component has specifications of  *)
(* its own: Spec, SpecTraining, SpecForecast, SpecLongForecast and         *)
(* SpecRetrain (store, training pairs, forecast, retrain requests),        *)
(* SpecLifecycle (startup and cleanup), SpecFetcher, and SpecCleaning,     *)
(* SpecRepair and SpecFaults (cleaning of whole, corrupt and unworkable    *)
(* tables).                                                                *)
(*                                                                         *)
(* Scheduling.  Every handler is a coroutine of one asyncio event loop.    *)
(* train_model awaits only _save_model, and neither predict, train_model   *)
(* nor _save_model awaits anything that suspends, so a call that has       *)
(* started runs to its return before any other call starts.  The model     *)
(* keeps one running call (call, pc) and starts a new one only at          *)
(* pc = "idle"; the statements of the running call are separate steps.     *)
(*                                                                         *)
(* Numbers.  Prices are integers.  A scaled value v = (x - min)/range is   *)
(* kept as its numerator x - min; the denominator is the fitted range of   *)
(* the feature (ScalerRange).  The confidence score is kept in thousandths *)
(* and the band in thousandths of a price unit, so the arithmetic of the   *)
(* forecast loop is exact.                                                 *)
(***************************************************************************)
EXTENDS Integers, Sequences, FiniteSets, TLC

VARIABLES
    models,            \* self.models: ticker -> trained model (run 0: no key)
    scalers,           \* self.scalers: ticker -> fitted scaler (run 0: no key)
    model_info,        \* self.model_info: ticker -> metadata (run 0: no key)
    files,             \* model_dir: ticker -> the three artifacts on disk
    nextRun,           \* identity of the next training run
    call,              \* the running call: operation and arguments
    pc,                \* position of the running call
    pre,               \* the registry and the artifacts as they were at call time
    train,             \* locals of train_model: model, scaler, info, result
    current_sequence,  \* predict: the window fed to the model
    day,               \* predict: the loop variable of range(days)
    predictions,       \* predict: the list built by the loop
    used,              \* predict: the model and scaler read from the registry
    response,          \* get_stock_prediction: what the endpoint answers
    now,               \* datetime.now(), in hours
    todo,              \* the keys a running loop over files or entries has left
    cutoff_date,       \* cleanup_old_models: now - days_old
    removed_count,     \* cleanup_old_models: entries removed so far
    cache,             \* cache_dir: cache key -> the cache file cache_<key>.pkl
    snapshot,          \* csv_dir: ticker -> the payload in <TICKER>_data.csv
    fetch,             \* the calls of fetch_stock_data: caller -> locals, position
    invoked,           \* how many times the market-data collaborator was invoked
    order,             \* the finished fetch calls, in the order they finished
    data_in,           \* process_historical_data: the table it was called with
    data,              \* process_historical_data: the table it is working on
    stage,             \* process_historical_data: its position
    sorted_data,       \* process_historical_data: the table as sort_index left it
    background_tasks   \* the retrain_model tasks queued by /retrain and not yet run

storeVars == <<models, scalers, model_info, files, nextRun, call, pc, pre, train,
               current_sequence, day, predictions, used, response>>
houseVars == <<todo, cutoff_date, removed_count>>

fetcherVars == <<cache, snapshot, fetch, invoked, order>>
processorVars == <<data_in, data, stage, sorted_data>>
outsideStore == <<fetcherVars, processorVars, background_tasks>>

vars == <<storeVars, now, houseVars, fetcherVars, processorVars,
          background_tasks>>

\* what a step of train_model, predict or the endpoint leaves alone
storeRest == <<now, houseVars, outsideStore>>

-----------------------------------------------------------------------------
(* Program constants *)

sequence_length == 60
MinExtraPoints == 30
ConfidenceFloor == 500
ConfidenceStep == 20
BandBase == 5
BandDayUnit == 10

(* Bounds of the model *)

MaxRuns == 2
MaxDays == 27
MaxToday == 1

features == <<"Open", "High", "Low", "Close", "Volume">>
target_feature == "Close"
Features == {features[i] : i \in 1..Len(features)}

\* Tickers as callers pass them, and the registry keys they map to.
InputTickers == {"a", "A", "B"}

\* a ticker taken as the caller wrote it
UpperSkipped(t) == t

\* ticker.upper() (lines 185, 273, 392)
Upper(t) == IF t = "a" THEN "A" ELSE t
Tickers == {Upper(t) : t \in InputTickers}

\* The strings a dictionary of the registry or a file name can be keyed by.
Keys == InputTickers

-----------------------------------------------------------------------------
(* Input data: a table of len(data) bars.  The bars of a table are a fixed  *)
(* function of the row index for each of two shapes, rising and falling.    *)

BarCounts == {sequence_length - 1, sequence_length,
              sequence_length + MinExtraPoints - 1,
              sequence_length + MinExtraPoints,
              sequence_length + MinExtraPoints + 1}
Shapes == {"rising", "falling"}
Tables == [n : BarCounts, shape : Shapes]

CloseAt(d, i) == IF d.shape = "rising" THEN 100 + 2 * i ELSE 400 - 3 * i

Bar(d, i) ==
    [f \in Features |->
        CASE f = "Open"   -> CloseAt(d, i) - 1
          [] f = "High"   -> CloseAt(d, i) + 4
          [] f = "Low"    -> CloseAt(d, i) - 5
          [] f = "Close"  -> CloseAt(d, i)
          [] f = "Volume" -> 1000 + 10 * (i % 7)]

SetMin(S) == CHOOSE x \in S : \A y \in S : x <= y
SetMax(S) == CHOOSE x \in S : \A y \in S : x >= y

-----------------------------------------------------------------------------
(* MinMaxScaler(feature_range=(0, 1)) *)

NoScaler == [run |-> 0, lo |-> [f \in Features |-> 0], hi |-> [f \in Features |-> 0]]

\* scaler.fit: per-feature minimum and maximum of the table
Fit(r, d) ==
    [run |-> r,
     lo  |-> [f \in Features |-> SetMin({Bar(d, i)[f] : i \in 1..d.n})],
     hi  |-> [f \in Features |-> SetMax({Bar(d, i)[f] : i \in 1..d.n})]]

\* the denominator of a scaled value; a zero range is replaced by 1
ScalerRange(sc, f) == IF sc.hi[f] = sc.lo[f] THEN 1 ELSE sc.hi[f] - sc.lo[f]

\* scaler.transform of one row: the numerators (x - min) of the scaled values
Transform(sc, row) == [f \in Features |-> row[f] - sc.lo[f]]

\* scaler.inverse_transform of one scaled row: numerator/range * range + min
InverseTransform(sc, srow) == [f \in Features |-> srow[f] + sc.lo[f]]

\* scaled_data = scaler.transform(feature_data), rows 1..n
ScaledData(sc, d) == [i \in 1..d.n |-> Transform(sc, Bar(d, i))]

-----------------------------------------------------------------------------
(* The trained network.  A run of training yields one of a few functions    *)
(* from a window to a scaled Close (a numerator over the Close range).      *)

Kinds == {"flat", "rise", "fall", "mean"}
NoModel == [run |-> 0, kind |-> "none"]

ModelPredict(m, window) ==
    LET last  == window[Len(window)][target_feature]
        first == window[1][target_feature]
    IN  CASE m.kind = "flat" -> last
          [] m.kind = "rise" -> last + 7
          [] m.kind = "fall" -> last - 45
          [] m.kind = "mean" -> (first + last) \div 2
          [] OTHER           -> 0

\* datetime.isoformat() and datetime.fromisoformat(): a string is a date
\* written out (iso, with the time it says) or some other text
IsoFormat(t) == [iso |-> TRUE, at |-> t]
NotADate == [iso |-> FALSE, at |-> 0]
\* a parse that takes any text for a date
FromIsoFormatLenient(str) == [ok |-> TRUE, at |-> str.at]

FromIsoFormat(str) == [ok |-> str.iso, at |-> IF str.iso THEN str.at ELSE 0]

NoInfo == [run |-> 0, training_samples |-> 0, validation_samples |-> 0,
           data_points_used |-> 0, last_trained |-> IsoFormat(0)]

NoFiles == [model |-> NoModel, scaler |-> NoScaler, info |-> NoInfo]

\* an artifact whose write was cut short: it cannot be read back
CorruptModel == [run |-> -1, kind |-> "none"]
CorruptScaler == [NoScaler EXCEPT !.run = -1]
CorruptInfo == [NoInfo EXCEPT !.run = -1]

NoCall == [op |-> "none", ticker |-> "", asked |-> "", data |-> [n |-> 0, shape |-> "rising"],
           days |-> 0]
NoTrain ==
    [model |-> NoModel, scaler |-> NoScaler, info |-> NoInfo, result |-> "none",
     X |-> <<>>, X_train |-> <<>>, X_val |-> <<>>]
NoUsed == [model |-> NoModel, scaler |-> NoScaler]
NoResponse == [status |-> 0]

-----------------------------------------------------------------------------
(* StockDataFetcher: payloads, cache files and callers.  A payload is the   *)
(* table one invocation of the collaborator returned: the invocation it     *)
(* came from, its number of rows, its columns, its lowest price and whether *)
(* it has nulls.                                                            *)

cache_duration == 1
required_columns == {"Open", "High", "Low", "Close", "Volume"}

\* None
NoPayload == [id |-> 0, rows |-> 0, columns |-> {}, low |-> 0, nulls |-> FALSE]

\* what _fetch_yfinance_data can return for invocation id (lines 159-173):
\* None (no rows, or yfinance raised) or a table with rows: one with all
\* columns, nulls and a lowest price of 0, one without Volume, one with a
\* negative price
Collaborator(id) ==
    {NoPayload,
     [id |-> id, rows |-> 2, columns |-> required_columns, low |-> 0, nulls |-> TRUE],
     [id |-> id, rows |-> 2, columns |-> required_columns \ {"Volume"}, low |-> 1,
      nulls |-> FALSE],
     [id |-> id, rows |-> 2, columns |-> required_columns, low |-> -1, nulls |-> FALSE]}

\* the requests callers make: ticker as written, date range
DateRanges == {1, 2}
FetchRequests == {"a", "A"} \X DateRanges

\* _get_cache_key, _get_cache_path (lines 40-47): one file per uppercased
\* ticker and date range
CacheKey(t, r) == <<Upper(t), r>>
CacheKeys == {CacheKey(q[1], q[2]) : q \in FetchRequests}
SnapshotTickers == {k[1] : k \in CacheKeys}

\* a cache file: absent, or written at mtime with a payload, whole or not
NoCacheFile == [exists |-> FALSE, whole |-> FALSE, mtime |-> 0, payload |-> NoPayload]
TornCacheFile == [exists |-> TRUE, whole |-> FALSE, mtime |-> 0, payload |-> NoPayload]

Callers == {1, 2}
IdleFetch == [pc |-> "idle", key |-> <<"", 0>>, use_cache |-> FALSE, at |-> 0,
              seen |-> NoCacheFile, ticket |-> 0, got |-> NoPayload,
              result |-> NoPayload, wrote |-> FALSE]

\* StockDataFetcher.__init__ on empty directories (lines 27-36)
FetcherNew ==
    /\ cache = [k \in CacheKeys |-> NoCacheFile]
    /\ snapshot = [t \in SnapshotTickers |-> NoPayload]
    /\ fetch = [p \in Callers |-> IdleFetch]
    /\ invoked = 0
    /\ order = <<>>

\* no table is being cleaned
ProcessorOff ==
    /\ data_in = <<>>
    /\ data = <<>>
    /\ stage = "off"
    /\ sorted_data = <<>>

\* the registry and the model directory, as one value
Registry == [models |-> models, scalers |-> scalers, model_info |-> model_info,
             files |-> files]
EmptyRegistry ==
    [models     |-> [t \in Keys |-> NoModel],
     scalers    |-> [t \in Keys |-> NoScaler],
     model_info |-> [t \in Keys |-> NoInfo],
     files      |-> [t \in Keys |-> NoFiles]]

Init ==
    /\ models = [t \in Keys |-> NoModel]
    /\ scalers = [t \in Keys |-> NoScaler]
    /\ model_info = [t \in Keys |-> NoInfo]
    /\ files = [t \in Keys |-> NoFiles]
    /\ nextRun = 1
    /\ call = NoCall
    /\ pc = "idle"
    /\ pre = EmptyRegistry
    /\ train = NoTrain
    /\ current_sequence = <<>>
    /\ day = 0
    /\ predictions = <<>>
    /\ used = NoUsed
    /\ response = NoResponse
    /\ now = 0
    /\ background_tasks = {}
    /\ todo = {}
    /\ cutoff_date = 0
    /\ removed_count = 0
    /\ FetcherNew
    /\ ProcessorOff

registryVars == <<models, scalers, model_info, files>>
predictVars == <<current_sequence, day, predictions, used>>

-----------------------------------------------------------------------------
(* Calls.  A call starts when no call is running.  train_model is called    *)
(* on its own or by predict; both uppercase the ticker first.               *)

\* train_model entered (lines 185-187)
CallTrain(t, d) ==
    /\ pc = "idle"
    /\ nextRun <= MaxRuns
    /\ call' = [op |-> "train", ticker |-> Upper(t), asked |-> t, data |-> d,
                days |-> 0]
    /\ pre' = Registry
    /\ pc' = "t_check"
    /\ UNCHANGED <<registryVars, nextRun, train, predictVars, response,
                   storeRest>>

\* get_stock_prediction calls predict (main.py 260; predict lines 273-275)
CallPredict(t, d, n) ==
    /\ pc = "idle"
    /\ models[Upper(t)].run # 0 \/ nextRun <= MaxRuns
    /\ call' = [op |-> "predict", ticker |-> Upper(t), asked |-> t, data |-> d,
                days |-> n]
    /\ pre' = Registry
    /\ pc' = "p_check"
    /\ UNCHANGED <<registryVars, nextRun, train, predictVars, response,
                   storeRest>>

-----------------------------------------------------------------------------
(* train_model *)

\* a caller that does not test the result of train_model
AfterTrainIgnoringFailure(ok) ==
    IF call.op = "train" THEN "ret" ELSE "p_read"

\* where a returning train_model continues: its caller is the test harness
\* (op = "train") or predict (lines 280-283: return [] when not success)
AfterTrain(ok) ==
    IF call.op = "train" THEN "ret"
    ELSE IF ok THEN "p_read" ELSE "respond"

\* return False: "insufficient" (lines 190-191), "no_sequences" (lines
\* 197-198) or "exception" (lines 257-259), after the error each one logs
TrainFails(why) ==
    /\ train' = [train EXCEPT !.result = why]
    /\ pc' = AfterTrain(FALSE)

\* the threshold test with <= for <
InsufficientDataInclusive(d) == d.n <= sequence_length + MinExtraPoints

\* len(data) < self.sequence_length + 30 (lines 189-191)
InsufficientData(d) == d.n < sequence_length + MinExtraPoints

TrainCheck ==
    /\ pc = "t_check"
    /\ IF InsufficientData(call.data)
       THEN TrainFails("insufficient")
       ELSE /\ pc' = "t_prepare"
            /\ UNCHANGED train
    /\ UNCHANGED <<registryVars, nextRun, call, pre, predictVars, response,
                   storeRest>>

\* len(X): one sequence per i in range(sequence_length, len(scaled_data))
NumSequences(d) == IF d.n > sequence_length THEN d.n - sequence_length ELSE 0

\* X, y of _prepare_data (lines 115-122): for each i (counted from 0) in
\* range(sequence_length, len(scaled_data)) the rows from..to-1 of the
\* scaled table and the scaled Close of row i
PrepareData(sc, d) ==
    [k \in 1..NumSequences(d) |->
        [i    |-> sequence_length + k - 1,
         from |-> k - 1,
         to   |-> sequence_length + k - 1,
         y    |-> Transform(sc, Bar(d, sequence_length + k))[target_feature]]]

\* a split index rounded to the nearest whole number
SplitIdxRounded(d) == (8 * NumSequences(d) + 5) \div 10

\* split_idx = int(0.8 * len(X))
SplitIdx(d) == (8 * NumSequences(d)) \div 10

\* _prepare_data and the len(X) == 0 test (lines 194-198)
TrainPrepare ==
    /\ pc = "t_prepare"
    /\ nextRun' = nextRun + 1
    /\ IF NumSequences(call.data) = 0
       THEN TrainFails("no_sequences")
       ELSE /\ train' = [train EXCEPT
                   !.scaler = Fit(nextRun, call.data),
                   !.X = PrepareData(Fit(nextRun, call.data), call.data)]
            /\ pc' = "t_fit"
    /\ UNCHANGED <<registryVars, call, pre, predictVars, response,
                   storeRest>>

\* the metadata dictionary of lines 241-249
TrainInfo(r, d) ==
    [run |-> r, training_samples |-> SplitIdx(d),
     validation_samples |-> NumSequences(d) - SplitIdx(d),
     data_points_used |-> d.n,
     last_trained |-> IsoFormat(now)]

\* split, _create_model, model.fit, model.evaluate (lines 200-238): the fit
\* yields some network, or raises and train_model returns False
TrainFit(kinds) ==
    /\ pc = "t_fit"
    /\ \/ \E k \in kinds :
            /\ train' = [train EXCEPT
                   !.X_train = SubSeq(train.X, 1, SplitIdx(call.data)),
                   !.X_val = SubSeq(train.X, SplitIdx(call.data) + 1,
                                    Len(train.X)),
                   !.model = [run |-> train.scaler.run, kind |-> k],
                   !.info = TrainInfo(train.scaler.run, call.data)]
            /\ pc' = "s_model"
       \/ TrainFails("exception")
    /\ UNCHANGED <<registryVars, nextRun, call, pre, predictVars, response,
                   storeRest>>

-----------------------------------------------------------------------------
(* _save_model: three writes, then model_info; any exception is caught and  *)
(* logged (lines 369-370) and _save_model returns normally.                 *)

\* a write that raises leaves the old artifact or a truncated one
FailedWrite(old, corrupt) == {old, corrupt}

\* model.save(model_path) (lines 352-353)
SaveModel ==
    /\ pc = "s_model"
    /\ \/ /\ files' = [files EXCEPT ![call.ticker].model = train.model]
          /\ pc' = "s_scaler"
       \/ /\ \E w \in FailedWrite(files[call.ticker].model, CorruptModel) :
                files' = [files EXCEPT ![call.ticker].model = w]
          /\ pc' = "t_store"
    /\ UNCHANGED <<models, scalers, model_info, nextRun, call, pre, train,
                   predictVars, response,
                   storeRest>>

\* pickle.dump(scaler, f) (lines 356-358)
SaveScaler ==
    /\ pc = "s_scaler"
    /\ \/ /\ files' = [files EXCEPT ![call.ticker].scaler = train.scaler]
          /\ pc' = "s_info"
       \/ /\ \E w \in FailedWrite(files[call.ticker].scaler, CorruptScaler) :
                files' = [files EXCEPT ![call.ticker].scaler = w]
          /\ pc' = "t_store"
    /\ UNCHANGED <<models, scalers, model_info, nextRun, call, pre, train,
                   predictVars, response,
                   storeRest>>

\* pickle.dump(info, f); self.model_info[ticker] = info (lines 361-365)
SaveInfo ==
    /\ pc = "s_info"
    /\ \/ /\ files' = [files EXCEPT ![call.ticker].info = train.info]
          /\ model_info' = [model_info EXCEPT ![call.ticker] = train.info]
       \/ /\ \E w \in FailedWrite(files[call.ticker].info, CorruptInfo) :
                files' = [files EXCEPT ![call.ticker].info = w]
          /\ UNCHANGED model_info
    /\ pc' = "t_store"
    /\ UNCHANGED <<models, scalers, nextRun, call, pre, train, predictVars,
                   response,
                   storeRest>>

\* self.models[ticker] = model; self.scalers[ticker] = scaler; return True
\* (lines 251-255)
\* a train_model that raises after _save_model has returned
TrainStoreRaises ==
    /\ pc = "t_store"
    /\ train' = [train EXCEPT !.result = "exception"]
    /\ pc' = AfterTrain(FALSE)
    /\ UNCHANGED <<registryVars, nextRun, call, pre, predictVars, response,
                   storeRest>>

TrainStore ==
    /\ pc = "t_store"
    /\ models' = [models EXCEPT ![call.ticker] = train.model]
    /\ scalers' = [scalers EXCEPT ![call.ticker] = train.scaler]
    /\ train' = [train EXCEPT !.result = "ok"]
    /\ pc' = AfterTrain(TRUE)
    /\ UNCHANGED <<model_info, files, nextRun, call, pre, predictVars, response,
                   storeRest>>

-----------------------------------------------------------------------------
(* predict *)

\* return [] (lines 283, 336-338)
PredictFails ==
    /\ predictions' = <<>>
    /\ pc' = "respond"

\* a predict that trains whether or not the ticker has a model
PredictCheckAlwaysTrains ==
    /\ pc = "p_check"
    /\ pc' = "t_check"
    /\ UNCHANGED <<registryVars, nextRun, call, pre, train, predictVars, response,
                   storeRest>>

\* if ticker not in self.models: train it first (lines 277-280)
PredictCheck ==
    /\ pc = "p_check"
    /\ pc' = IF models[call.ticker].run = 0 THEN "t_check" ELSE "p_read"
    /\ UNCHANGED <<registryVars, nextRun, call, pre, train, predictVars, response,
                   storeRest>>

\* a seed window taken from the start of the table
FirstSequence(scaled) ==
    LET n == Len(scaled)
        k == IF n < sequence_length THEN n ELSE sequence_length
    IN  [i \in 1..k |-> scaled[i]]

\* scaled_data[-self.sequence_length:]: the last sequence_length rows, or
\* all of them when there are fewer
LastSequence(scaled) ==
    LET n == Len(scaled)
        k == IF n < sequence_length THEN n ELSE sequence_length
    IN  [i \in 1..k |-> scaled[n - k + i]]

\* model and scaler are read, the table is scaled and the seed window taken
\* (lines 285-296); a missing scaler key raises and predict returns []
PredictRead ==
    /\ pc = "p_read"
    /\ IF scalers[call.ticker].run = 0
       THEN /\ PredictFails
            /\ UNCHANGED <<current_sequence, day, used>>
       ELSE /\ used' = [model |-> models[call.ticker], scaler |-> scalers[call.ticker]]
            /\ current_sequence' =
                   LastSequence(ScaledData(scalers[call.ticker], call.data))
            /\ predictions' = <<>>
            /\ day' = 0
            /\ pc' = "p_loop"
    /\ UNCHANGED <<registryVars, nextRun, call, pre, train, response,
                   storeRest>>

Max(a, b) == IF a >= b THEN a ELSE b

\* the decay counted from the 1-based day number
ConfidenceOneBased(d) == Max(ConfidenceFloor, 1000 - (d + 1) * ConfidenceStep)

\* the decay without its floor
ConfidenceNoFloor(d) == 1000 - d * ConfidenceStep

\* confidence = max(0.5, 1.0 - (day * 0.02)), in thousandths (line 318)
Confidence(d) == Max(ConfidenceFloor, 1000 - d * ConfidenceStep)

\* a band whose factor narrows with the day
ConfidenceRangeNarrowing(price, d) == price * BandBase * (BandDayUnit - d)

\* confidence_range = pred_actual * 0.05 * (1 + day * 0.1), in thousandths of
\* a price unit (line 319)
ConfidenceRange(price, d) == price * BandBase * (BandDayUnit + d)

\* the other features taken from the oldest row of the window
LastFeaturesFromOldestRow(window, pred_scaled) ==
    [window[1] EXCEPT ![target_feature] = pred_scaled]

\* last_features: the last row of the window with Close replaced by the
\* prediction (lines 307-309)
LastFeatures(window, pred_scaled) ==
    [window[Len(window)] EXCEPT ![target_feature] = pred_scaled]

\* np.roll(current_sequence, -1, axis=0); current_sequence[-1] = last_features
\* (lines 330-331)
Roll(window) == Tail(window) \o <<Head(window)>>

\* a window whose newest row is overwritten without the roll
NextSequenceNoRoll(window, row) == [window EXCEPT ![Len(window)] = row]

NextSequence(window, row) == [Roll(window) EXCEPT ![Len(window)] = row]

\* the dictionary appended for loop variable d (lines 321-327)
Point(price, d) ==
    [price            |-> price,
     confidence       |-> Confidence(d),
     confidence_upper |-> 1000 * price + ConfidenceRange(price, d),
     confidence_lower |-> Max(0, 1000 * price - ConfidenceRange(price, d)),
     day              |-> d + 1]

\* one iteration of for day in range(days) (lines 298-331); the reshape of
\* a window that is not sequence_length rows long raises
PredictStep ==
    /\ pc = "p_loop"
    /\ day < call.days
    /\ IF Len(current_sequence) # sequence_length
       THEN /\ PredictFails
            /\ UNCHANGED <<current_sequence, day>>
       ELSE LET pred_scaled   == ModelPredict(used.model, current_sequence)
                last_features == LastFeatures(current_sequence, pred_scaled)
                pred_actual   ==
                    InverseTransform(used.scaler, last_features)[target_feature]
            IN  /\ predictions' = Append(predictions, Point(pred_actual, day))
                /\ current_sequence' = NextSequence(current_sequence, last_features)
                /\ day' = day + 1
                /\ pc' = "p_loop"
    /\ UNCHANGED <<registryVars, nextRun, call, pre, train, used, response,
                   storeRest>>

\* the loop is exhausted: return predictions (lines 333-334)
PredictDone ==
    /\ pc = "p_loop"
    /\ day >= call.days
    /\ pc' = "respond"
    /\ UNCHANGED <<registryVars, nextRun, call, pre, train, predictVars, response,
                   storeRest>>

-----------------------------------------------------------------------------
(* get_stock_prediction after predict returned (main.py 262-300).  The      *)
(* rounding of the prices to cents is not modelled; the mean confidence is  *)
(* kept as the sum and the count it is the quotient of.                     *)

RECURSIVE SumConfidence(_)
SumConfidence(ps) ==
    IF ps = <<>> THEN 0 ELSE Head(ps).confidence + SumConfidence(Tail(ps))

\* the dates counted from today instead of tomorrow
PredictionListFromToday(ps, today) ==
    [i \in 1..Len(ps) |->
        [date             |-> today + i - 1,
         predicted_price  |-> ps[i].price,
         confidence_upper |-> ps[i].confidence_upper,
         confidence_lower |-> ps[i].confidence_lower,
         confidence_score |-> ps[i].confidence]]

\* prediction_list (main.py 268-280): entry i is dated base_date + (i+1) days
PredictionList(ps, today) ==
    [i \in 1..Len(ps) |->
        [date             |-> today + i,
         predicted_price  |-> ps[i].price,
         confidence_upper |-> ps[i].confidence_upper,
         confidence_lower |-> ps[i].confidence_lower,
         confidence_score |-> ps[i].confidence]]

Respond(dates) ==
    /\ pc = "respond"
    /\ IF predictions = <<>>
       THEN response' = [status |-> 500]
       ELSE \E today \in dates :
              response' =
                [status           |-> 200,
                 ticker           |-> call.ticker,
                 today            |-> today,
                 predictions      |-> PredictionList(predictions, today),
                 last_trained     |-> model_info[call.ticker].run,
                 confidence_sum   |-> SumConfidence(predictions),
                 confidence_count |-> Len(predictions)]
    /\ pc' = "ret"
    /\ UNCHANGED <<registryVars, nextRun, call, pre, train, predictVars,
                   storeRest>>

\* the call has returned to its caller; the next call may start
Return ==
    /\ pc = "ret"
    /\ pc' = "idle"
    /\ call' = NoCall
    /\ pre' = EmptyRegistry
    /\ train' = NoTrain
    /\ current_sequence' = <<>>
    /\ day' = 0
    /\ predictions' = <<>>
    /\ used' = NoUsed
    /\ response' = NoResponse
    /\ UNCHANGED <<registryVars, nextRun,
                   storeRest>>

-----------------------------------------------------------------------------
TrainSteps(kinds) ==
    \/ TrainCheck \/ TrainPrepare \/ TrainFit(kinds)
    \/ SaveModel \/ SaveScaler \/ SaveInfo \/ TrainStore

PredictSteps(dates) ==
    \/ PredictCheck \/ PredictRead \/ PredictStep \/ PredictDone
    \/ Respond(dates)

\* The store is explored with tables of one shape, one kind of network,
\* short horizons and one date: what the registry holds after a call does
\* not depend on any of them.
StoreTables ==
    {d \in Tables :
        /\ d.shape = "rising"
        /\ d.n \in {sequence_length - 1,
                    sequence_length + MinExtraPoints - 1,
                    sequence_length + MinExtraPoints}}
StoreKinds == {"rise"}
StoreHorizons == {1, 2}
StoreDates == {0}

Next ==
    \/ \E t \in InputTickers, d \in StoreTables : CallTrain(t, d)
    \/ \E t \in InputTickers, d \in StoreTables, n \in StoreHorizons :
          CallPredict(t, d, n)
    \/ TrainSteps(StoreKinds)
    \/ PredictSteps(StoreDates)
    \/ Return

Spec == Init /\ [][Next]_vars

-----------------------------------------------------------------------------
(* The forecast loop on its own: ticker A was trained once (any kind of     *)
(* network, fitted on either shape of MinTable bars) and saved without a    *)
(* failure; predict is then called with every table and horizon.            *)

ForecastTicker == "A"
TrainedTables == {d \in Tables : d.n = sequence_length + MinExtraPoints}

InitForecast ==
    /\ now = 0
    /\ background_tasks = {}
    /\ todo = {}
    /\ cutoff_date = 0
    /\ removed_count = 0
    /\ FetcherNew
    /\ ProcessorOff
    /\ \E k \in Kinds, d \in TrainedTables :
        LET m  == [run |-> 1, kind |-> k]
            sc == Fit(1, d)
            i  == TrainInfo(1, d)
        IN  /\ models = [t \in Keys |-> IF t = ForecastTicker THEN m ELSE NoModel]
            /\ scalers = [t \in Keys |-> IF t = ForecastTicker THEN sc ELSE NoScaler]
            /\ model_info = [t \in Keys |-> IF t = ForecastTicker THEN i ELSE NoInfo]
            /\ files = [t \in Keys |->
                          IF t = ForecastTicker
                          THEN [model |-> m, scaler |-> sc, info |-> i]
                          ELSE NoFiles]
            /\ nextRun = 2
            /\ call = NoCall
            /\ pc = "idle"
            /\ pre = EmptyRegistry
            /\ train = NoTrain
            /\ current_sequence = <<>>
            /\ day = 0
            /\ predictions = <<>>
            /\ used = NoUsed
            /\ response = NoResponse

NextForecast ==
    \/ \E t \in {x \in InputTickers : Upper(x) = ForecastTicker},
          d \in Tables, n \in 1..MaxDays : CallPredict(t, d, n)
    \/ PredictSteps(0..MaxToday)
    \/ Return

SpecForecast == InitForecast /\ [][NextForecast]_vars

\* The /retrain endpoint (main.py 312-336): the retrain_model task is handed
\* to the background tasks of the request and the request is acknowledged
\* as queued; nothing else happens in the handler.
CallRetrain(t) ==
    /\ pc = "idle"
    /\ call' = [op |-> "retrain", ticker |-> Upper(t), asked |-> t,
                data |-> NoCall.data, days |-> 0]
    /\ pre' = Registry
    /\ background_tasks' = background_tasks \cup {t}
    /\ response' = [status |-> 200]
    /\ pc' = "ret"
    /\ UNCHANGED <<registryVars, nextRun, train, predictVars, now, houseVars,
                   fetcherVars, processorVars>>

\* a retrain task that throws the ticker's model away
RetrainModelEvicts(t) ==
    /\ pc = "idle"
    /\ t \in background_tasks
    /\ background_tasks' = background_tasks \ {t}
    /\ call' = [op |-> "retrain_task", ticker |-> Upper(t), asked |-> t,
                data |-> NoCall.data, days |-> 0]
    /\ pre' = Registry
    /\ models' = [models EXCEPT ![Upper(t)] = NoModel]
    /\ pc' = "ret"
    /\ UNCHANGED <<scalers, model_info, files, nextRun, train, predictVars,
                   response, now, houseVars, fetcherVars, processorVars>>

\* StockPredictor.retrain_model (lines 372-388), run as a background task
\* after the response was sent: the ticker is uppercased and two lines are
\* logged.  The coroutine awaits nothing, so it runs between two calls.
RetrainModel(t) ==
    /\ pc = "idle"
    /\ t \in background_tasks
    /\ background_tasks' = background_tasks \ {t}
    /\ call' = [op |-> "retrain_task", ticker |-> Upper(t), asked |-> t,
                data |-> NoCall.data, days |-> 0]
    /\ pre' = Registry
    /\ pc' = "ret"
    /\ UNCHANGED <<registryVars, nextRun, train, predictVars, response, now,
                   houseVars, fetcherVars, processorVars>>

\* Retraining requests among trainings and forecasts of one ticker.
RetrainTickers == {t \in InputTickers : Upper(t) = ForecastTicker}
RetrainHorizons == {1}

NextRetrain ==
    \/ \E d \in StoreTables : CallTrain(ForecastTicker, d)
    \/ \E d \in StoreTables, n \in RetrainHorizons :
          CallPredict(ForecastTicker, d, n)
    \/ \E t \in RetrainTickers : CallRetrain(t)
    \/ \E t \in RetrainTickers : RetrainModel(t)
    \/ TrainSteps(StoreKinds)
    \/ PredictSteps(StoreDates)
    \/ Return

SpecRetrain == Init /\ [][NextRetrain]_vars

\* Training on its own: every table, one ticker.
TrainingTicker == "A"

NextTraining ==
    \/ \E d \in Tables : CallTrain(TrainingTicker, d)
    \/ TrainSteps(StoreKinds)
    \/ Return

SpecTraining == Init /\ [][NextTraining]_vars

\* The forecast loop over horizons longer than the window: after
\* sequence_length steps no row of the seed window is left in it.
MaxLongDays == 62
LongTables == {d \in Tables : d.n = sequence_length}
LongHorizons == (sequence_length + 1)..MaxLongDays

NextLongForecast ==
    \/ \E t \in {x \in InputTickers : Upper(x) = ForecastTicker},
          d \in LongTables, n \in LongHorizons : CallPredict(t, d, n)
    \/ PredictSteps(StoreDates)
    \/ Return

SpecLongForecast == InitForecast /\ [][NextLongForecast]_vars

-----------------------------------------------------------------------------
(* Startup and housekeeping of the model store.  The model directory        *)
(* outlives the process: at startup it holds what earlier processes left,   *)
(* under file names keyed by uppercased tickers, each artifact whole,       *)
(* truncated or missing.  Time is counted in hours.                         *)

Day == 24

\* an artifact file exists; it can be read back
Exists(x) == x.run # 0
Readable(x) == x.run > 0

\* model_files = list(self.model_dir.glob("*.h5")) (line 66); the key of a
\* file is its stem without "_model" (line 69)
ModelFiles == {k \in Keys : Exists(files[k].model)}

\* initialize -> _load_existing_models entered (lines 58, 65-66)
LoadScan ==
    /\ pc = "boot"
    /\ todo' = ModelFiles
    /\ pre' = Registry
    /\ pc' = "l_loop"
    /\ UNCHANGED <<registryVars, nextRun, call, train, predictVars, response,
                   now, cutoff_date, removed_count, outsideStore>>

\* the loop body for one model file (lines 71-91): what it has put into the
\* three dictionaries when it ends, normally or in its except clause
LoadedEntry(f) ==
    IF ~Readable(f.model) THEN NoFiles
    ELSE IF ~Exists(f.scaler)
         THEN IF Readable(f.info)
              THEN [model |-> f.model, scaler |-> NoScaler, info |-> f.info]
              ELSE [model |-> f.model, scaler |-> NoScaler, info |-> NoInfo]
    ELSE IF ~Readable(f.scaler)
         THEN [model |-> f.model, scaler |-> NoScaler, info |-> NoInfo]
    ELSE IF ~Readable(f.info)
         THEN [model |-> f.model, scaler |-> f.scaler, info |-> NoInfo]
    ELSE f

\* one turn of for model_file in model_files (lines 68-93)
LoadFile(k) ==
    /\ pc = "l_loop"
    /\ k \in todo
    /\ todo' = todo \ {k}
    /\ LET e == LoadedEntry(files[k])
       IN  /\ models' = IF Exists(e.model) THEN [models EXCEPT ![k] = e.model]
                        ELSE models
           /\ scalers' = IF Exists(e.scaler) THEN [scalers EXCEPT ![k] = e.scaler]
                         ELSE scalers
           /\ model_info' = IF Exists(e.info) THEN [model_info EXCEPT ![k] = e.info]
                            ELSE model_info
    /\ UNCHANGED <<files, nextRun, call, pc, pre, train, predictVars, response,
                   now, cutoff_date, removed_count, outsideStore>>

\* the loop is over; initialize returns and the service takes calls
LoadDone ==
    /\ pc = "l_loop"
    /\ todo = {}
    /\ pc' = "idle"
    /\ pre' = EmptyRegistry
    /\ UNCHANGED <<registryVars, nextRun, call, train, predictVars, response,
                   now, houseVars, outsideStore>>

\* the process ends and a new one starts on the same model directory
Restart ==
    /\ pc = "idle"
    /\ models' = [t \in Keys |-> NoModel]
    /\ scalers' = [t \in Keys |-> NoScaler]
    /\ model_info' = [t \in Keys |-> NoInfo]
    /\ pc' = "boot"
    /\ UNCHANGED <<files, nextRun, call, pre, train, predictVars, response,
                   now, houseVars, outsideStore>>

\* the clock moves on by dt hours
Advance(dt, limit) ==
    /\ now + dt <= limit
    /\ now' = now + dt
    /\ UNCHANGED <<storeVars, houseVars, outsideStore>>

\* the age test with <= for <
ExpiredInclusive(last_trained) == last_trained <= cutoff_date

\* if last_trained < cutoff_date (line 441)
Expired(last_trained) == last_trained < cutoff_date

\* cleanup_old_models(days_old) entered (lines 432-436)
CallCleanup(days_old) ==
    /\ pc = "idle"
    /\ call' = [NoCall EXCEPT !.op = "cleanup", !.days = days_old]
    /\ pre' = Registry
    /\ cutoff_date' = now - days_old * Day
    /\ removed_count' = 0
    /\ todo' = {k \in Keys : Exists(model_info[k])}
    /\ pc' = "c_loop"
    /\ UNCHANGED <<registryVars, nextRun, train, predictVars, response, now,
                   outsideStore>>

\* one turn of for ticker, info in self.model_info.items() (lines 436-459)
CleanupEntry(k) ==
    /\ pc = "c_loop"
    /\ k \in todo
    /\ todo' = todo \ {k}
    /\ LET last_trained == FromIsoFormat(model_info[k].last_trained)
       IN  IF last_trained.ok /\ Expired(last_trained.at)
           THEN /\ models' = [models EXCEPT ![k] = NoModel]
                /\ scalers' = [scalers EXCEPT ![k] = NoScaler]
                /\ files' = [files EXCEPT ![k] = NoFiles]
                /\ removed_count' = removed_count + 1
           ELSE UNCHANGED <<models, scalers, files, removed_count>>
    /\ UNCHANGED <<model_info, nextRun, call, pc, pre, train, predictVars,
                   response, now, cutoff_date, outsideStore>>

\* if removed_count > 0: keep the metadata of the tickers that have a model
\* (lines 461-464)
CleanupDone ==
    /\ pc = "c_loop"
    /\ todo = {}
    /\ model_info' = IF removed_count > 0
                     THEN [k \in Keys |-> IF Exists(models[k]) THEN model_info[k]
                                          ELSE NoInfo]
                     ELSE model_info
    /\ pc' = "c_ret"
    /\ UNCHANGED <<models, scalers, files, nextRun, call, pre, train,
                   predictVars, response, now, houseVars, outsideStore>>

\* cleanup_old_models has returned
CleanupReturn ==
    /\ pc = "c_ret"
    /\ pc' = "idle"
    /\ call' = NoCall
    /\ pre' = EmptyRegistry
    /\ cutoff_date' = 0
    /\ removed_count' = 0
    /\ UNCHANGED <<registryVars, nextRun, train, predictVars, response, now, todo,
                   outsideStore>>

LoadSteps == LoadScan \/ (\E k \in Keys : LoadFile(k)) \/ LoadDone
CleanupSteps == (\E k \in Keys : CleanupEntry(k)) \/ CleanupDone \/ CleanupReturn

\* What an earlier process left for one ticker: nothing, or a model with a
\* scaler and metadata trained some days before this process started, the
\* date in the metadata possibly not an ISO date, and for ticker A also an
\* artifact missing or truncated.
OldTable == [n |-> sequence_length + MinExtraPoints, shape |-> "rising"]
OldRun(k) == IF k = "A" THEN MaxRuns + 2 ELSE MaxRuns + 3
OldAges == {40, 30, 1}
OldInfo(k, age) ==
    [run |-> OldRun(k), training_samples |-> SplitIdx(OldTable),
     validation_samples |-> NumSequences(OldTable) - SplitIdx(OldTable),
     data_points_used |-> OldTable.n,
     last_trained |-> IsoFormat(0 - age * Day)]
OldWhole(k) ==
    {[model |-> [run |-> OldRun(k), kind |-> "rise"],
      scaler |-> Fit(OldRun(k), OldTable),
      info |-> OldInfo(k, age)] : age \in OldAges}
OldUndated(k) ==
    {[f EXCEPT !.info.last_trained = NotADate] : f \in {CHOOSE x \in OldWhole(k) : TRUE}}
OldDamaged(k) ==
    LET f == CHOOSE x \in OldWhole(k) : TRUE
    IN  {[f EXCEPT !.model = CorruptModel],
         [f EXCEPT !.scaler = CorruptScaler],
         [f EXCEPT !.scaler = NoScaler],
         [f EXCEPT !.info = CorruptInfo]}
OldFiles(k) ==
    {NoFiles} \cup OldWhole(k) \cup OldUndated(k)
        \cup (IF k = "A" THEN OldDamaged(k) ELSE {})

InitLifecycle ==
    /\ models = [t \in Keys |-> NoModel]
    /\ scalers = [t \in Keys |-> NoScaler]
    /\ model_info = [t \in Keys |-> NoInfo]
    /\ \E fa \in OldFiles("A"), fb \in OldFiles("B") :
          files = [t \in Keys |-> IF t = "A" THEN fa
                                  ELSE IF t = "B" THEN fb ELSE NoFiles]
    /\ nextRun = 1
    /\ call = NoCall
    /\ pc = "boot"
    /\ pre = EmptyRegistry
    /\ train = NoTrain
    /\ current_sequence = <<>>
    /\ day = 0
    /\ predictions = <<>>
    /\ used = NoUsed
    /\ response = NoResponse
    /\ now = 0
    /\ background_tasks = {}
    /\ todo = {}
    /\ cutoff_date = 0
    /\ removed_count = 0
    /\ FetcherNew
    /\ ProcessorOff

MaxClockDays == 2
LifeTables == {OldTable}
LifeHorizons == {1}
DaysOld == {30, 1}

NextLifecycle ==
    \/ LoadSteps
    \/ \E t \in InputTickers, d \in LifeTables, n \in LifeHorizons :
          CallPredict(t, d, n)
    \/ TrainSteps(StoreKinds)
    \/ PredictSteps(StoreDates)
    \/ Return
    \/ \E days_old \in DaysOld : CallCleanup(days_old)
    \/ CleanupSteps
    \/ pc = "idle" /\ Advance(Day, MaxClockDays * Day)
    \/ Restart

SpecLifecycle == InitLifecycle /\ [][NextLifecycle]_vars

-----------------------------------------------------------------------------
(* StockDataFetcher.fetch_stock_data.  The coroutine runs without a break   *)
(* from its entry to await loop.run_in_executor (line 102), where it is     *)
(* suspended while a pool thread asks the collaborator and other callers    *)
(* run; resumed, it runs without a break to its return (validation, cache   *)
(* write, _save_to_csv, which awaits nothing that suspends).                *)

MaxFetches == 2
MaxHours == 1

\* the age test with <= for <
IsCacheValidInclusive(e) == e.exists /\ now - e.mtime <= cache_duration

\* _is_cache_valid (lines 54-61)
IsCacheValid(e) == e.exists /\ now - e.mtime < cache_duration

\* a validation that does not look at the prices
ValidateColumnsOnly(p) == p.rows > 0 /\ required_columns \subseteq p.columns

\* _validate_stock_data (lines 175-208): not empty, the required columns are
\* there, no price below zero; nulls are only warned about
ValidateStockData(p) ==
    /\ p.rows > 0
    /\ required_columns \subseteq p.columns
    /\ p.low >= 0

\* a write that leaves a cache file that is already there alone
CacheWriteIfAbsent(c, key, p) ==
    IF c[key].whole THEN c
    ELSE [c EXCEPT ![key] = [exists |-> TRUE, whole |-> TRUE, mtime |-> now,
                             payload |-> p]]

\* with open(cache_path, 'wb') as f: pickle.dump(cache_data, f) (lines 121-128)
CacheWrite(c, key, p) ==
    [c EXCEPT ![key] = [exists |-> TRUE, whole |-> TRUE, mtime |-> now,
                        payload |-> p]]

\* fetch_stock_data from its entry to the cache hit or to the await
\* (lines 82-108)
FetchCall(p, t, r, use_cache) ==
    /\ fetch[p].pc = "idle"
    /\ LET key == CacheKey(t, r)
           e   == cache[key]
           f   == [IdleFetch EXCEPT !.key = key, !.use_cache = use_cache,
                                    !.at = now, !.seen = e]
       IN  IF use_cache /\ IsCacheValid(e) /\ e.whole
           THEN /\ fetch' = [fetch EXCEPT
                       ![p] = [f EXCEPT !.pc = "done", !.result = e.payload]]
                /\ order' = Append(order, p)
                /\ UNCHANGED invoked
           ELSE /\ invoked < MaxFetches
                /\ invoked' = invoked + 1
                /\ fetch' = [fetch EXCEPT
                       ![p] = [f EXCEPT !.pc = "waiting", !.ticket = invoked + 1]]
                /\ UNCHANGED order
    /\ UNCHANGED <<cache, snapshot, now, storeVars, houseVars, background_tasks, processorVars>>

\* fetch_stock_data from the result of the collaborator to its return
\* (lines 108-141)
FetchResume(p, stock_data) ==
    /\ fetch[p].pc = "waiting"
    /\ LET f == fetch[p]
       IN  IF stock_data = NoPayload \/ stock_data.rows = 0
              \/ ~ValidateStockData(stock_data)
           THEN /\ fetch' = [fetch EXCEPT ![p] = [f EXCEPT !.pc = "done",
                                                           !.got = stock_data]]
                /\ UNCHANGED <<cache, snapshot>>
           ELSE /\ cache' = IF f.use_cache THEN CacheWrite(cache, f.key, stock_data)
                            ELSE cache
                /\ snapshot' = [snapshot EXCEPT ![f.key[1]] = stock_data]
                /\ fetch' = [fetch EXCEPT ![p] = [f EXCEPT !.pc = "done",
                                                           !.got = stock_data,
                                                           !.result = stock_data,
                                                           !.wrote = f.use_cache]]
    /\ order' = Append(order, p)
    /\ UNCHANGED <<invoked, now, storeVars, houseVars, background_tasks, processorVars>>

\* the caller has its answer and may call again
FetchReturn(p) ==
    /\ fetch[p].pc = "done"
    /\ fetch' = [fetch EXCEPT ![p] = IdleFetch]
    /\ order' = SelectSeq(order, LAMBDA q : q # p)
    /\ UNCHANGED <<cache, snapshot, invoked, now, storeVars, houseVars, background_tasks,
                   processorVars>>

\* The cache directory is empty at first or holds one file that cannot be
\* read back.
InitFetcher ==
    /\ models = [t \in Keys |-> NoModel]
    /\ scalers = [t \in Keys |-> NoScaler]
    /\ model_info = [t \in Keys |-> NoInfo]
    /\ files = [t \in Keys |-> NoFiles]
    /\ nextRun = 1
    /\ call = NoCall
    /\ pc = "idle"
    /\ pre = EmptyRegistry
    /\ train = NoTrain
    /\ current_sequence = <<>>
    /\ day = 0
    /\ predictions = <<>>
    /\ used = NoUsed
    /\ response = NoResponse
    /\ now = 0
    /\ background_tasks = {}
    /\ todo = {}
    /\ cutoff_date = 0
    /\ removed_count = 0
    /\ \E e \in {NoCacheFile, TornCacheFile} :
          cache = [k \in CacheKeys |-> IF k = CacheKey("A", 1) THEN e
                                       ELSE NoCacheFile]
    /\ snapshot = [t \in SnapshotTickers |-> NoPayload]
    /\ fetch = [p \in Callers |-> IdleFetch]
    /\ invoked = 0
    /\ order = <<>>
    /\ ProcessorOff

NextFetcher ==
    \/ \E p \in Callers, q \in FetchRequests, use_cache \in BOOLEAN :
          FetchCall(p, q[1], q[2], use_cache)
    \/ \E p \in Callers : \E stock_data \in Collaborator(fetch[p].ticket) :
          FetchResume(p, stock_data)
    \/ \E p \in Callers : FetchReturn(p)
    \/ Advance(cache_duration, MaxHours)

SpecFetcher == InitFetcher /\ [][NextFetcher]_vars

-----------------------------------------------------------------------------
(* DataProcessor.process_historical_data.  A table is a sequence of bars;   *)
(* a bar has a date, an Open, a High, a Low, a Close that may be missing    *)
(* (NaN) and a Volume, and keeps the position it had in the input (row).    *)
(* A table either has a Volume column, the same volume in every bar, or     *)
(* has none (NoColumn in every bar); with equal volumes the volume filling  *)
(* and the volume filter leave the table as it is.  Of the indicator        *)
(* columns two are kept: Price_Change, the first that is missing in the     *)
(* first row only, and Volume_SMA, the first that needs the Volume column.  *)

MaxRows == 3
NaN == -999
\* the value of a column the table does not have
NoColumn == -998
\* a date that pd.to_datetime cannot parse
BadDate == 0
\* the window of Volume_SMA (line 183)
VolumeWindow == 10

BarDates == {1, 2}
OpenValues == {9}
CloseValues == {NaN, 0, 10}
HighValues == {30}
LowValues == {5, 40}
VolumeValues == {1000}
RawBars ==
    [Date : BarDates, Open : OpenValues, High : HighValues, Low : LowValues,
     Close : CloseValues, Volume : VolumeValues,
     Price_Change : {NoColumn}, Volume_SMA : {NoColumn}]
RawTables == UNION {[1..n -> RawBars] : n \in 0..MaxRows}

\* the bars of a table, each with its position in the table
Numbered(d) ==
    [i \in 1..Len(d) |->
        [Date |-> d[i].Date, Open |-> d[i].Open, High |-> d[i].High,
         Low |-> d[i].Low, Close |-> d[i].Close, Volume |-> d[i].Volume,
         Price_Change |-> d[i].Price_Change, Volume_SMA |-> d[i].Volume_SMA,
         row |-> i]]

\* the table a caller holds: the bars without their positions
Frame(t) ==
    [i \in 1..Len(t) |->
        [Date |-> t[i].Date, Open |-> t[i].Open, High |-> t[i].High,
         Low |-> t[i].Low, Close |-> t[i].Close, Volume |-> t[i].Volume,
         Price_Change |-> t[i].Price_Change, Volume_SMA |-> t[i].Volume_SMA]]

\* the rows of table t at the positions in I, in the order of t
RECURSIVE Pick(_, _, _)
Pick(t, I, i) ==
    IF i > Len(t) THEN <<>>
    ELSE IF i \in I THEN <<t[i]>> \o Pick(t, I, i + 1)
    ELSE Pick(t, I, i + 1)
Rows(t, I) == Pick(t, I, 1)

\* a sort that leaves the table as it is
SortIndexSkipped(t) == {t}

\* processed_data.sort_index(inplace=True) (line 50): the rows in ascending
\* order of date; the sort is numpy's quicksort, which is free to put rows
\* of equal date in any order
SortIndex(t) ==
    LET n == Len(t)
        Perms == {f \in [1..n -> 1..n] : \A i, j \in 1..n : i # j => f[i] # f[j]}
    IN  {[i \in 1..n |-> t[f[i]]] :
            f \in {g \in Perms : \A i, j \in 1..n :
                                   i < j => t[g[i]].Date <= t[g[j]].Date}}

\* data[col].fillna(method='ffill') (lines 117-120): a missing price takes
\* the price of the nearest row above that has one
ForwardFill(t) ==
    LET filled[i \in 1..Len(t)] ==
            IF t[i].Close # NaN THEN t[i].Close
            ELSE IF i = 1 THEN NaN
            ELSE filled[i - 1]
    IN  [i \in 1..Len(t) |-> [t[i] EXCEPT !.Close = filled[i]]]

\* a row with a missing value in some column
IsNull(r) ==
    NaN \in {r.Open, r.High, r.Low, r.Close, r.Volume, r.Price_Change,
             r.Volume_SMA}

\* data.dropna() (lines 132-134): a row goes when any of its columns,
\* whichever they are, is missing
DropNa(t) == Rows(t, {i \in 1..Len(t) : ~IsNull(t[i])})

\* _handle_missing_values (lines 101-143)
HandleMissingValues(t) == DropNa(ForwardFill(t))

\* the volumes of rows i - w + 1 .. i added up
RECURSIVE WindowSum(_, _, _)
WindowSum(t, i, w) ==
    IF w = 0 THEN 0 ELSE t[i].Volume + WindowSum(t, i - 1, w - 1)

\* has the table a Volume column: data['Volume'] raises KeyError without
\* one (line 183)
HasVolume(t) == \A i \in 1..Len(t) : t[i].Volume # NoColumn

\* data['Close'].diff() (line 179): missing in the first row
PriceChange(t, i) ==
    IF i = 1 \/ t[i].Close = NaN \/ t[i - 1].Close = NaN THEN NaN
    ELSE t[i].Close - t[i - 1].Close

\* data['Volume'].rolling(window=10).mean() (line 183): missing in the
\* first nine rows
VolumeSma(t, i) ==
    IF i < VolumeWindow THEN NaN
    ELSE WindowSum(t, i, VolumeWindow) \div VolumeWindow

\* _add_technical_indicators (lines 145-194): the columns are assigned one
\* after the other; without a Volume column the assignment of Volume_SMA
\* raises, the handler returns the table with the columns assigned up to
\* there (lines 192-194)
AddTechnicalIndicators(t) ==
    [i \in 1..Len(t) |->
        [t[i] EXCEPT !.Price_Change = PriceChange(t, i),
                     !.Volume_SMA = IF HasVolume(t) THEN VolumeSma(t, i)
                                    ELSE t[i].Volume_SMA]]

\* a < b as pandas compares columns: false when either side is missing
Less(a, b) == a # NaN /\ b # NaN /\ a < b

\* data[~invalid_rows] with invalid_rows = High < Low (lines 234-239)
DropHighBelowLow(t) == Rows(t, {i \in 1..Len(t) : ~Less(t[i].High, t[i].Low)})

\* a price filter that lets a price of zero through
DropNegative(t) ==
    Rows(t, {i \in 1..Len(t) :
                \A price \in {t[i].Open, t[i].High, t[i].Low, t[i].Close} :
                    ~Less(price, 0)})

\* data[~invalid_prices] with invalid_prices = price <= 0, for Open, High,
\* Low and Close in turn (lines 241-248)
DropNonPositive(t) ==
    Rows(t, {i \in 1..Len(t) :
                \A price \in {t[i].Open, t[i].High, t[i].Low, t[i].Close} :
                    ~Less(price, 1)})

\* an integrity repair that leaves rows of equal date in the table
DropDuplicatesSkipped(t) == t

\* data[~data.index.duplicated(keep='last')] (lines 258-261)
DropDuplicates(t) ==
    Rows(t, {i \in 1..Len(t) : \A j \in (i + 1)..Len(t) : t[j].Date # t[i].Date})

\* _validate_data_integrity (lines 221-270)
ValidateDataIntegrity(t) == DropDuplicates(DropNonPositive(DropHighBelowLow(t)))

\* process_historical_data entered: empty input is returned as it is
\* (lines 33-39)
ProcessCall(d) ==
    /\ stage = "off"
    /\ data_in' = d
    /\ data' = Numbered(d)
    /\ sorted_data' = <<>>
    /\ stage' = IF d = <<>> THEN "done" ELSE "sort"
    /\ UNCHANGED <<storeVars, now, houseVars, background_tasks, fetcherVars>>

\* a date conversion that takes any text for a date
ToDatetimeLenient(t) == TRUE

\* pd.to_datetime(processed_data['Date']) (line 43): raises on a date it
\* cannot parse
ToDatetime(t) == \A i \in 1..Len(t) : t[i].Date # BadDate

\* the dates become the index and the table is sorted by it (lines 41-50);
\* when the conversion raises the original table is returned (lines 64-66)
ProcessSort ==
    /\ stage = "sort"
    /\ IF ToDatetime(data)
       THEN /\ data' \in SortIndex(data)
            /\ sorted_data' = data'
            /\ stage' = "fill"
       ELSE /\ data' = Numbered(data_in)
            /\ sorted_data' = <<>>
            /\ stage' = "done"
    /\ UNCHANGED <<data_in, storeVars, now, houseVars, background_tasks, fetcherVars>>

\* processed_data = self._handle_missing_values(processed_data) (line 53)
ProcessFill ==
    /\ stage = "fill"
    /\ data' = HandleMissingValues(data)
    /\ stage' = "indicators"
    /\ UNCHANGED <<data_in, sorted_data, storeVars, now, houseVars, background_tasks, fetcherVars>>

\* processed_data = self._add_technical_indicators(processed_data) (line
\* 56): columns are added, no row is added, dropped or reordered
ProcessIndicators ==
    /\ stage = "indicators"
    /\ data' = AddTechnicalIndicators(data)
    /\ stage' = "integrity"
    /\ UNCHANGED <<data_in, sorted_data, storeVars, now, houseVars, background_tasks, fetcherVars>>

\* processed_data = self._validate_data_integrity(processed_data) (line 59)
ProcessIntegrity ==
    /\ stage = "integrity"
    /\ data' = ValidateDataIntegrity(data)
    /\ stage' = "done"
    /\ UNCHANGED <<data_in, sorted_data, storeVars, now, houseVars, background_tasks, fetcherVars>>

\* return processed_data (line 62)
ProcessReturn ==
    /\ stage = "done"
    /\ data_in' = <<>>
    /\ data' = <<>>
    /\ sorted_data' = <<>>
    /\ stage' = "off"
    /\ UNCHANGED <<storeVars, now, houseVars, background_tasks, fetcherVars>>

\* process_historical_data called on the table an earlier call returned
ProcessAgain ==
    /\ stage = "done"
    /\ data # <<>>
    /\ data_in' = Frame(data)
    /\ data' = Numbered(Frame(data))
    /\ sorted_data' = <<>>
    /\ stage' = "sort"
    /\ UNCHANGED <<storeVars, now, houseVars, background_tasks, fetcherVars>>

InitCleaning == Init

NextCleaning ==
    \/ stage = "off" /\ \E d \in RawTables : ProcessCall(d)
    \/ ProcessSort
    \/ ProcessFill
    \/ ProcessIndicators
    \/ ProcessIntegrity
    \/ ProcessReturn

SpecCleaning == InitCleaning /\ [][NextCleaning]_vars

(* Tables with corrupt bars: a bar is whole, or one of its prices is zero   *)
(* or negative, or its High lies below its Low.  A table returned by the    *)
(* cleaning may be cleaned again.                                           *)

MaxRepairRows == 2

WholeBar(d) ==
    [Date |-> d, Open |-> 9, High |-> 30, Low |-> 5, Close |-> 10,
     Volume |-> 1000, Price_Change |-> NoColumn, Volume_SMA |-> NoColumn]
CorruptBars ==
    UNION {{WholeBar(d)}
           \cup {[WholeBar(d) EXCEPT !.Open = v] : v \in {-1, 0}}
           \cup {[WholeBar(d) EXCEPT !.Close = v] : v \in {-1, 0}}
           \cup {[WholeBar(d) EXCEPT !.High = v] : v \in {0, 4}}
           \cup {[WholeBar(d) EXCEPT !.Low = v] : v \in {0, 40}}
           : d \in BarDates}
CorruptTables == UNION {[1..n -> CorruptBars] : n \in 0..MaxRepairRows}

NextRepair ==
    \/ stage = "off" /\ \E d \in CorruptTables : ProcessCall(d)
    \/ ProcessSort
    \/ ProcessFill
    \/ ProcessIndicators
    \/ ProcessIntegrity
    \/ ProcessAgain
    \/ ProcessReturn

SpecRepair == InitCleaning /\ [][NextRepair]_vars

(* Tables the cleaning cannot work through: a date that does not parse, or  *)
(* no Volume column.                                                        *)

MaxFaultRows == 2

FaultBars ==
    {[WholeBar(d) EXCEPT !.Low = l] : d \in BarDates \cup {BadDate}, l \in LowValues}
FaultTables ==
    UNION {{[i \in 1..n |-> [t[i] EXCEPT !.Volume = v]] :
                t \in [1..n -> FaultBars], v \in {1000, NoColumn}}
           : n \in 0..MaxFaultRows}

NextFaults ==
    \/ stage = "off" /\ \E d \in FaultTables : ProcessCall(d)
    \/ ProcessSort
    \/ ProcessFill
    \/ ProcessIndicators
    \/ ProcessIntegrity
    \/ ProcessReturn

SpecFaults == InitCleaning /\ [][NextFaults]_vars

-----------------------------------------------------------------------------
(* Properties of the model store, checked under Spec *)

\* the run every one of the three in-memory fields and the three artifacts
\* of ticker t belongs to, when they all belong to one
SameRun(t, r) ==
    /\ models[t].run = r
    /\ scalers[t].run = r
    /\ model_info[t].run = r
    /\ files[t].model.run = r
    /\ files[t].scaler.run = r
    /\ files[t].info.run = r

\* the endpoint has answered a predict call with a forecast
Answered == pc = "ret" /\ call.op = "predict" /\ response.status = 200

\* C1: the model, the scaler and the metadata a predict call answers with
\* belong to one training run: all three are the entry committed before the
\* call or all three are the newly trained one, never a mix.
C1_PredictReadsOneTriple ==
    Answered =>
        /\ used.model.run = used.scaler.run
        /\ used.scaler.run = response.last_trained

\* C2: when a training request for a ticker that an earlier training request
\* already trained has finished, the three artifacts and the three in-memory
\* fields of the ticker all belong to one and the same training run.
C2_TwoTrainingsLeaveOneRun ==
    (pc = "ret" /\ call.op = "train" /\ pre.models[call.ticker].run # 0)
        => \E r \in 0..MaxRuns : SameRun(call.ticker, r)

\* C3: when train reports success, the three artifacts of that run are on
\* disk and the in-memory entry of the ticker is exactly that run's triple.
C3_SuccessMeansSavedAndSwapped ==
    train.result = "ok" =>
        /\ files[call.ticker] =
               [model |-> train.model, scaler |-> train.scaler, info |-> train.info]
        /\ models[call.ticker] = train.model
        /\ scalers[call.ticker] = train.scaler
        /\ model_info[call.ticker] = train.info

\* C4: train fails with "insufficient data" and changes nothing exactly when
\* fewer than sequence_length + 30 bars are given (89 fails, 90 passes the
\* test); predict with exactly 90 bars and no model trains first and, when
\* the training succeeds, answers with a forecast of the horizon asked for.
C4_HistoryThreshold ==
    /\ train.result = "insufficient" =>
           /\ call.data.n < sequence_length + MinExtraPoints
           /\ Registry = pre
    /\ (call.data.n < sequence_length + MinExtraPoints /\ train.result # "none")
           => train.result = "insufficient"
    /\ (pc = "ret" /\ call.op = "train"
           /\ call.data.n < sequence_length + MinExtraPoints)
           => train.result = "insufficient"
    /\ (pc = "ret" /\ call.op = "predict" /\ pre.models[call.ticker].run = 0
           /\ call.data.n = sequence_length + MinExtraPoints)
           => /\ train.result \in {"ok", "exception"}
              /\ train.result = "ok" =>
                     /\ response.status = 200
                     /\ Len(response.predictions) = call.days

\* a table of exactly 90 bars was given to predict for a ticker with no
\* model, the lazy training succeeded and a forecast was answered
C4_Witness ==
    /\ Answered
    /\ pre.models[call.ticker].run = 0
    /\ call.data.n = sequence_length + MinExtraPoints
    /\ train.result = "ok"
    /\ Len(response.predictions) = call.days

\* C5: predict for a ticker that has no model trains before any forecasting
\* step; when that training fails, predict returns no points, the endpoint
\* answers with an error and the registry is as it was: the ticker still
\* has no entry.
C5_LazyTrainingFirst ==
    (call.op = "predict" /\ pre.models[call.ticker].run = 0) =>
        /\ (pc \in {"p_read", "p_loop"} \/ predictions # <<>> \/ used # NoUsed)
               => train.result = "ok"
        /\ pc \in {"respond", "ret"} => train.result # "none"
        /\ train.result \notin {"none", "ok"} =>
               /\ pc \in {"respond", "ret"}
               /\ predictions = <<>>
               /\ used = NoUsed
               /\ Registry = pre
               /\ models[call.ticker].run = 0
               /\ pc = "ret" => response.status = 500

\* the lazy training of a predict call failed and the endpoint answered 500
C5_Witness ==
    /\ pc = "ret"
    /\ call.op = "predict"
    /\ pre.models[call.ticker].run = 0
    /\ train.result \in {"insufficient", "exception"}
    /\ response.status = 500
    /\ models[call.ticker].run = 0

\* C11: predict on a ticker that has a model never trains or refits: from
\* the call to its return the in-memory models, scalers and metadata and the
\* artifacts on disk are what they were at the call, whatever the table and
\* the horizon.
C11_PredictLeavesEntry ==
    (call.op = "predict" /\ pre.models[call.ticker].run # 0) =>
        /\ Registry = pre
        /\ train = NoTrain
        /\ pc \notin {"t_check", "t_prepare", "t_fit", "s_model", "s_scaler",
                      "s_info", "t_store"}
        /\ pc = "ret" /\ response.status = 200 =>
               /\ used.model = pre.models[call.ticker]
               /\ used.scaler = pre.scalers[call.ticker]

\* a forecast was answered from an existing model for a table other than
\* the one the model was trained on
C11_Witness ==
    /\ Answered
    /\ pre.models[call.ticker].run # 0
    /\ pre.model_info[call.ticker].data_points_used # call.data.n
    /\ used.model = models[call.ticker]

\* C29: a train call that returns failure (too few bars, no sequences, an
\* exception in preparation, fit or evaluation) leaves the registry as it
\* was at the call: the models, scalers and metadata in memory and the
\* three artifacts on disk of every ticker; a ticker without an entry still
\* has none.
C29_FailedTrainLeavesState ==
    train.result \in {"insufficient", "no_sequences", "exception"} =>
        /\ Registry = pre
        /\ files[call.ticker] = pre.files[call.ticker]
        /\ pre.models[call.ticker].run = 0 =>
               /\ models[call.ticker] = NoModel
               /\ scalers[call.ticker] = NoScaler
               /\ model_info[call.ticker] = NoInfo

\* a training of a ticker that has an entry failed in the fit and returned
C29_Witness ==
    /\ pc = "ret"
    /\ call.op = "train"
    /\ train.result = "exception"
    /\ pre.models[call.ticker].run # 0
    /\ models[call.ticker] = pre.models[call.ticker]

-----------------------------------------------------------------------------
(* Properties of retraining, checked under SpecRetrain *)

\* C30: the retrain request only acknowledges that the work was queued, and
\* the task it queued changes nothing: when either has run, the models,
\* scalers and metadata in memory and the artifacts on disk of every ticker
\* are what they were before it, so the model a later predict reads is the
\* one it would have read without the request.
C30_RetrainChangesNothing ==
    /\ call.op = "retrain" =>
           /\ Registry = pre
           /\ response.status = 200
           /\ call.asked \in background_tasks
           /\ train = NoTrain
    /\ call.op = "retrain_task" =>
           /\ Registry = pre
           /\ call.asked \notin background_tasks
           /\ train = NoTrain

\* the queued task has run for a ticker that has a model, and the model is
\* the one there was
C30_Witness ==
    /\ pc = "ret"
    /\ call.op = "retrain_task"
    /\ models[call.ticker].run # 0
    /\ models[call.ticker] = pre.models[call.ticker]

-----------------------------------------------------------------------------
(* Properties of startup and housekeeping, checked under SpecLifecycle *)

\* what the registry and the model directory hold for key k
Entry(reg, k) ==
    [model |-> reg.models[k], scaler |-> reg.scalers[k],
     info |-> reg.model_info[k], files |-> reg.files[k]]
NoEntry == [model |-> NoModel, scaler |-> NoScaler, info |-> NoInfo,
            files |-> NoFiles]

\* at the call of cleanup, key k had metadata whose date lies strictly before
\* now - days_old
WasExpired(k) ==
    /\ pre.model_info[k].run # 0
    /\ pre.model_info[k].last_trained.iso
    /\ pre.model_info[k].last_trained.at < now - call.days * Day

WasUnparsable(k) ==
    /\ pre.model_info[k].run # 0
    /\ ~pre.model_info[k].last_trained.iso

\* C13: an entry whose last_trained cannot be parsed is left as it was by
\* cleanup_old_models, in memory and on disk, and the entries beside it are
\* still examined: the expired ones among them are removed.
C13_UnparsableDateKept ==
    (pc = "c_ret" /\ \E u \in Keys : WasUnparsable(u)) =>
        \A k \in Keys :
            /\ WasUnparsable(k) => Entry(Registry, k) = Entry(pre, k)
            /\ WasExpired(k) => Entry(Registry, k) = NoEntry

\* a cleanup late enough to expire every date met an entry with an
\* unparsable date, kept it, and removed an expired entry beside it
C13_Witness ==
    /\ pc = "c_ret"
    /\ now - call.days * Day > 0
    /\ \E u, k \in Keys :
          /\ WasUnparsable(u)
          /\ Exists(models[u]) /\ Exists(files[u].model)
          /\ model_info[u].last_trained = NotADate
          /\ WasExpired(k)
          /\ Exists(pre.models[k])
          /\ Entry(Registry, k) = NoEntry

\* C14: when startup load is through, a ticker of which some artifact could
\* not be read has no entry at all, and every ticker whose artifacts could
\* all be read is registered with them.
C14_LoadAllOrNothing ==
    (pc = "l_loop" /\ todo = {}) =>
        \A k \in Keys :
            IF /\ Readable(files[k].model)
               /\ Readable(files[k].scaler)
               /\ Readable(files[k].info)
            THEN Entry(Registry, k) =
                    [model |-> files[k].model, scaler |-> files[k].scaler,
                     info |-> files[k].info, files |-> files[k]]
            ELSE /\ models[k] = NoModel
                 /\ scalers[k] = NoScaler
                 /\ model_info[k] = NoInfo

\* C15: whatever startup load, train, predict and cleanup have done, the
\* dictionaries and the model directory hold entries under uppercased
\* tickers only, so one entry per ticker at most, and a call works on the
\* entry of the uppercased ticker however the caller wrote it.
C15_KeysUppercased ==
    /\ \A k \in Keys \ Tickers :
          /\ Entry(Registry, k) = NoEntry
          /\ Entry(pre, k) = NoEntry
    /\ call.op \in {"train", "predict"} =>
          /\ call.ticker \in Tickers
          /\ call.ticker = IF call.asked = "a" THEN "A" ELSE call.asked
          /\ \A k \in Keys \ {call.ticker} : Entry(Registry, k) = Entry(pre, k)
    /\ (pc = "ret" /\ response.status = 200) =>
          used.model = models[call.ticker]

\* a forecast asked for "a" was answered from the entry under "A" that an
\* earlier call had trained, and no entry exists under "a"
C15_Witness ==
    /\ Answered
    /\ call.asked = "a"
    /\ pre.models["A"].run \in 1..MaxRuns
    /\ used.model = pre.models["A"]
    /\ models["a"] = NoModel

\* C28: between operations the registry is complete for every ticker: it
\* holds a model exactly when it holds a scaler and exactly when it holds
\* metadata; and predict never reads the scaler of a ticker that has a
\* model and no scaler.
C28_RegistryComplete ==
    /\ pc = "idle" =>
           \A t \in Keys :
               /\ (models[t].run # 0) = (scalers[t].run # 0)
               /\ (models[t].run # 0) = (model_info[t].run # 0)
    /\ pc = "p_read" => scalers[call.ticker].run # 0

-----------------------------------------------------------------------------
(* Properties of the fetcher, checked under SpecFetcher *)

\* C16: a fetch that may use the cache and finds a whole cache file for its
\* key written less than cache_duration (1 hour) ago returns the payload of
\* the file without invoking the collaborator and without touching the
\* cache or the snapshot; when the file is cache_duration old or older, the
\* fetch invokes the collaborator.
C16_CacheWithinTtl ==
    [][\A p \in Callers :
          (/\ fetch[p].pc = "idle"
           /\ fetch'[p].pc # "idle"
           /\ fetch'[p].use_cache
           /\ cache[fetch'[p].key].whole) =>
              IF now - cache[fetch'[p].key].mtime < 1
              THEN /\ fetch'[p].pc = "done"
                   /\ fetch'[p].result = cache[fetch'[p].key].payload
                   /\ fetch'[p].result # NoPayload
                   /\ invoked' = invoked
                   /\ cache' = cache
                   /\ snapshot' = snapshot
              ELSE /\ fetch'[p].pc = "waiting"
                   /\ invoked' = invoked + 1]_vars

\* one caller was answered from the cache file of a key, and an hour after
\* the file was written another caller, asking for the same key, is waiting
\* for the collaborator
C16_Witness ==
    \E p, q \in Callers :
        /\ fetch[q].pc = "done"
        /\ fetch[q].ticket = 0
        /\ fetch[q].result = fetch[q].seen.payload
        /\ fetch[q].result # NoPayload
        /\ fetch[p].pc = "waiting"
        /\ fetch[p].use_cache
        /\ fetch[p].key = fetch[q].key
        /\ fetch[p].seen = fetch[q].seen
        /\ fetch[p].at - fetch[p].seen.mtime = 1

\* a payload that has rows, all required columns and no negative price
PassedValidation(x) ==
    /\ x.rows > 0
    /\ \A c \in {"Open", "High", "Low", "Close", "Volume"} : c \in x.columns
    /\ x.low >= 0

\* C17: every payload held by a whole cache file or by a snapshot passed
\* validation, and a fetch whose collaborator result was None, empty or
\* invalid returned failure and left no trace of that result in the cache or
\* in a snapshot.
C17_OnlyValidatedStored ==
    /\ \A k \in CacheKeys : cache[k].whole => PassedValidation(cache[k].payload)
    /\ \A t \in SnapshotTickers :
          snapshot[t] # NoPayload => PassedValidation(snapshot[t])
    /\ \A p \in Callers :
          (fetch[p].pc = "done" /\ fetch[p].ticket # 0
               /\ ~PassedValidation(fetch[p].got)) =>
              /\ fetch[p].result = NoPayload
              /\ \A k \in CacheKeys : cache[k].payload.id # fetch[p].ticket
              /\ \A t \in SnapshotTickers : snapshot[t].id # fetch[p].ticket

\* a fetch got a table with a negative price from the collaborator and
\* failed, while the cache file and the snapshot still hold the payload of
\* an earlier fetch
C17_Witness ==
    \E p \in Callers :
        /\ fetch[p].pc = "done"
        /\ fetch[p].ticket # 0
        /\ fetch[p].got.rows > 0
        /\ fetch[p].got.low < 0
        /\ fetch[p].result = NoPayload
        /\ fetch[p].use_cache
        /\ cache[fetch[p].key].whole
        /\ cache[fetch[p].key] = fetch[p].seen
        /\ snapshot[fetch[p].key[1]] = cache[fetch[p].key].payload

\* caller p invoked the collaborator for key k, got a valid table and was
\* allowed to cache it
WroteKey(p, k) ==
    /\ fetch[p].pc = "done"
    /\ fetch[p].key = k
    /\ fetch[p].use_cache
    /\ fetch[p].ticket # 0
    /\ PassedValidation(fetch[p].got)

\* the caller among those of W that finished last
LastFinished(W) ==
    CHOOSE p \in W :
        \A q \in W : \E i, j \in 1..Len(order) :
            order[i] = q /\ order[j] = p /\ i <= j

\* C18: when the callers have all missed one key, invoked the collaborator,
\* got a valid table and finished, the cache file of the key is whole and
\* holds the payload of the one that finished, and so wrote, last; and
\* every caller that invoked the collaborator got the payload of its own
\* invocation or failure.
C18_LastWriterWins ==
    /\ \A k \in CacheKeys :
          (\A p \in Callers : WroteKey(p, k)) =>
                /\ cache[k].whole
                /\ cache[k].payload = fetch[LastFinished(Callers)].got
                /\ cache[k].payload.id = fetch[LastFinished(Callers)].ticket
    /\ \A p \in Callers :
          (fetch[p].pc = "done" /\ fetch[p].ticket # 0) =>
              /\ fetch[p].result \in {NoPayload, fetch[p].got}
              /\ fetch[p].got # NoPayload => fetch[p].got.id = fetch[p].ticket
              /\ PassedValidation(fetch[p].got) => fetch[p].result = fetch[p].got

\* two callers missed the same key at the same time: the one that invoked
\* the collaborator first finished last, and the cache file holds its
\* payload while the other caller holds its own
C18_Witness ==
    \E p, q \in Callers :
        /\ p # q
        /\ WroteKey(p, fetch[p].key)
        /\ WroteKey(q, fetch[p].key)
        /\ order = <<p, q>>
        /\ fetch[q].ticket < fetch[p].ticket
        /\ fetch[p].at = fetch[q].at
        /\ cache[fetch[p].key].payload = fetch[q].result
        /\ fetch[p].result.id = fetch[p].ticket
        /\ fetch[p].result # fetch[q].result

-----------------------------------------------------------------------------
(* Properties of cleaning, checked under SpecCleaning *)

LastOccurrence(d) ==
    CHOOSE i \in 1..Len(data_in) :
        /\ data_in[i].Date = d
        /\ \A j \in 1..Len(data_in) : data_in[j].Date = d => j <= i

\* C20: of several input bars for one date the output holds the last one in
\* input order, with the values it had in the input; duplicates are removed
\* right after the sort, so what filling and integrity repair work on has
\* one row per date already.
C20_KeepsLastOccurrence ==
    /\ stage \in {"fill", "indicators", "integrity"} =>
          \A i, j \in 1..Len(data) : i < j => data[i].Date # data[j].Date
    /\ stage = "done" =>
          \A i \in 1..Len(data) :
              /\ data[i].row = LastOccurrence(data[i].Date)
              /\ data[i].Close = data_in[data[i].row].Close
              /\ data[i].High = data_in[data[i].row].High
              /\ data[i].Low = data_in[data[i].row].Low

-----------------------------------------------------------------------------
(* Properties of the integrity repair, checked under SpecRepair *)

\* the prices of a bar
Prices(r) == {r.Open, r.High, r.Low, r.Close}

CleanSeries(d) ==
    /\ \A i \in 1..Len(d) :
           /\ d[i].Date # BadDate
           /\ NaN \notin Prices(d[i])
           /\ d[i].High >= d[i].Low
           /\ \A price \in Prices(d[i]) : price > 0
    /\ \A i, j \in 1..Len(d) : i < j => d[i].Date < d[j].Date

\* the table came out of an earlier cleaning: it has the indicator columns
Cleaned(d) == d # <<>> /\ \A i \in 1..Len(d) : d[i].Price_Change # NoColumn

\* the output has the bars of the input, row for row
SameBars ==
    /\ Len(data) = Len(data_in)
    /\ \A i \in 1..Len(data) :
           /\ data[i].row = i
           /\ data[i].Date = data_in[i].Date
           /\ Prices(data[i]) = Prices(data_in[i])
           /\ data[i].Open = data_in[i].Open
           /\ data[i].High = data_in[i].High
           /\ data[i].Low = data_in[i].Low
           /\ data[i].Close = data_in[i].Close
           /\ data[i].Volume = data_in[i].Volume

\* C22: cleaning a series that is clean already returns the same rows with
\* the same bar values and dates, and cleaning the result of a cleaning
\* again drops or changes no row.
C22_CleaningIdempotent ==
    stage = "done" =>
       /\ (CleanSeries(data_in) /\ ~Cleaned(data_in)) => SameBars
       /\ Cleaned(data_in) => SameBars

-----------------------------------------------------------------------------
(* Properties of the cleaning of tables it cannot work through, checked     *)
(* under SpecFaults                                                         *)

\* the positions the rows of a table had in the input
RowsOf(t) == [i \in 1..Len(t) |-> t[i].row]

\* a table with a date that does not parse
Unparsable(d) == \E i \in 1..Len(d) : d[i].Date = BadDate

\* C23 as stated: when a step fails, the frame returned is the frame the
\* steps before the failure had produced; here the step is the indicators,
\* failing for want of a Volume column, and the frame is the one the
\* failing step handed on.
C23_ReturnsFrameAtFailure ==
    [][(stage = "integrity" /\ ~HasVolume(data) /\ stage' = "done")
          => RowsOf(data') = RowsOf(data)]_vars

\* C23, amended: empty input comes back unchanged; when the date conversion
\* fails the original input comes back, in its order and without any
\* column added; when the indicators fail the steps after them still run,
\* so the frame that comes back has the indicator columns assigned before
\* the failure, not the others, and is repaired: dates ascend strictly and
\* no row has High < Low.
C23_FailureOutcome ==
    stage = "done" =>
       /\ data_in = <<>> => data = <<>>
       /\ Unparsable(data_in) =>
              /\ Frame(data) = data_in
              /\ RowsOf(data) = [i \in 1..Len(data_in) |-> i]
       /\ (~Unparsable(data_in) /\ ~HasVolume(data_in)) =>
              /\ \A i \in 1..Len(data) :
                     /\ data[i].Price_Change # NoColumn
                     /\ data[i].Volume_SMA = NoColumn
                     /\ data[i].High >= data[i].Low
              /\ \A i, j \in 1..Len(data) : i < j => data[i].Date < data[j].Date
       /\ (~Unparsable(data_in) /\ HasVolume(data_in)) =>
              \A i \in 1..Len(data) : data[i].Volume_SMA # NoColumn

\* a table without a Volume column and with one date twice came back with
\* one row: the duplicate was removed after the indicators had failed
C23_Witness ==
    /\ stage = "done"
    /\ Len(data_in) = 2
    /\ ~HasVolume(data_in)
    /\ ~Unparsable(data_in)
    /\ data_in[1].Date = data_in[2].Date
    /\ Len(data) = 1

-----------------------------------------------------------------------------
(* Properties of the forecast loop, checked under SpecForecast *)

\* the band of a forecast point: confidence_upper - price, in thousandths
Band(p) == p.confidence_upper - 1000 * p.price

\* C6: a successful predict returns exactly `days` points, numbered 1..days
\* in order and dated today+1 .. today+days; the loop ends after exactly
\* `days` iterations.
C6_ForecastShape ==
    /\ pc = "p_loop" => (Len(predictions) = day /\ day <= call.days)
    /\ \A i \in 1..Len(predictions) : predictions[i].day = i
    /\ (pc \in {"respond", "ret"} /\ predictions # <<>>)
           => (day = call.days /\ Len(predictions) = call.days)
    /\ Answered =>
           /\ Len(response.predictions) = call.days
           /\ \A i \in 1..call.days :
                  response.predictions[i].date = response.today + i

\* a forecast of three or more days was answered
C6_Witness ==
    /\ Answered
    /\ call.days >= 3
    /\ response.predictions[call.days].date = response.today + call.days

\* C7 as stated: the point numbered d has score max(0.5, 1.0 - 0.02 d) and
\* band price * 0.05 * (1 + 0.1 d).
C7_LawOfDayNumber ==
    \A i \in 1..Len(predictions) :
        LET p == predictions[i] IN
            /\ p.confidence = Max(500, 1000 - 20 * p.day)
            /\ Band(p) = p.price * 5 * (10 + p.day)

\* C7 amended: the point numbered d (d = 1 for the first, dated tomorrow) has
\* score max(0.5, 1.0 - 0.02 (d - 1)) and band price * 0.05 * (1 + 0.1 (d - 1)):
\* the first point has score 1.0 and band 0.05 * price.
C7_LawOfLoopIndex ==
    /\ \A i \in 1..Len(predictions) :
           LET p == predictions[i] IN
               /\ p.confidence = Max(500, 1000 - 20 * (p.day - 1))
               /\ Band(p) = p.price * 5 * (10 + (p.day - 1))
    /\ predictions # <<>> =>
           /\ predictions[1].day = 1
           /\ predictions[1].confidence = 1000
           /\ Band(predictions[1]) = 50 * predictions[1].price

\* a forecast long enough for the decay to be seen and the floor to be met
C7_Witness ==
    /\ Len(predictions) >= 27
    /\ predictions[1].confidence = 1000
    /\ predictions[2].confidence = 980
    /\ predictions[27].confidence = 500
    /\ predictions[2].price > 0

\* C8: within one forecast the score never increases from one point to the
\* next and lies between 0.5 and 1.0.
C8_ScoreMonotone ==
    \A i \in 1..Len(predictions) :
        /\ predictions[i].confidence >= 500
        /\ predictions[i].confidence <= 1000
        /\ i > 1 => predictions[i].confidence <= predictions[i - 1].confidence

\* a forecast in which the score fell and then stayed on its floor
C8_Witness ==
    /\ Len(predictions) >= 27
    /\ predictions[2].confidence < predictions[1].confidence
    /\ predictions[26].confidence = 500
    /\ predictions[27].confidence = 500

SeedWindow == LastSequence(ScaledData(used.scaler, call.data))

Min(a, b) == IF a <= b THEN a ELSE b

\* C10: after k steps the k newest rows of the window hold, in Open, High,
\* Low and Volume, the scaled values of the last observed bar, and in Close
\* the scaled prediction of their step (the one whose price was emitted).
C10_OtherFeaturesHeld ==
    (pc = "p_loop" /\ Len(current_sequence) = sequence_length) =>
        \A j \in 1..Min(day, sequence_length) :
            LET row == current_sequence[sequence_length - j + 1]
                p   == predictions[day - j + 1]
            IN  /\ \A f \in Features \ {target_feature} :
                       row[f] = SeedWindow[sequence_length][f]
                /\ InverseTransform(used.scaler, row)[target_feature] = p.price

\* three rows were appended and their Close values differ while the seed
\* window's older rows differ from its last row in Open
C10_Witness ==
    /\ pc = "p_loop"
    /\ day >= 3
    /\ Len(current_sequence) = sequence_length
    /\ current_sequence[sequence_length].Close
           # current_sequence[sequence_length - 1].Close
    /\ SeedWindow[1].Open # SeedWindow[sequence_length].Open

\* C24: predict on a ticker that has a model and a scaler returns no point
\* and leaves the registry as it was whenever fewer than sequence_length
\* bars are given; given sequence_length bars or more it starts from a
\* window of exactly the last sequence_length bars, scaled with the
\* ticker's scaler, and returns a forecast of the horizon asked for.
C24_InferenceThreshold ==
    (call.op = "predict" /\ pre.models[call.ticker].run # 0
        /\ pre.scalers[call.ticker].run # 0) =>
        /\ Registry = pre
        /\ call.data.n < sequence_length =>
               /\ predictions = <<>>
               /\ pc = "ret" => response.status # 200
        /\ call.data.n >= sequence_length =>
               /\ pc = "p_loop" => Len(current_sequence) = sequence_length
               /\ (pc = "p_loop" /\ day = 0) =>
                      \A i \in 1..sequence_length :
                          current_sequence[i] =
                              Transform(pre.scalers[call.ticker],
                                        Bar(call.data,
                                            call.data.n - sequence_length + i))
               /\ pc \in {"respond", "ret"} => Len(predictions) = call.days
               /\ pc = "ret" => response.status = 200

\* predict was given 59 bars for a ticker with a model: it returned no
\* point and the endpoint answered with an error
C24_Witness ==
    /\ pc = "ret"
    /\ call.op = "predict"
    /\ pre.models[call.ticker].run # 0
    /\ call.data.n = sequence_length - 1
    /\ predictions = <<>>
    /\ response.status = 500

\* C27: every forecast point has 0 <= confidence_lower <= price <=
\* confidence_upper (bounds in thousandths of a price unit), whatever price
\* the inverse transform yields, prices at or below zero included.
C27_BandOrdered ==
    \A i \in 1..Len(predictions) :
        LET p == predictions[i]
        IN  /\ 0 <= p.confidence_lower
            /\ p.confidence_lower <= 1000 * p.price
            /\ 1000 * p.price <= p.confidence_upper

-----------------------------------------------------------------------------
(* Properties of the training pairs, checked under SpecTraining *)

\* C26: a training that got as far as the fit had n >= sequence_length + 30
\* bars and built n - sequence_length pairs, pair i (counted from 0, from
\* sequence_length to n - 1) being the scaled rows i - sequence_length ..
\* i - 1 with the scaled Close of row i as target; the first
\* floor(0.8 * (n - sequence_length)) pairs are the training set and the
\* rest the validation set, neither is empty, and every target row of the
\* training set lies before every target row of the validation set.
C26_TrainingPairs ==
    (call.op = "train" /\ train.model.run # 0) =>
        LET n == call.data.n
            X == train.X
        IN  /\ n >= sequence_length + MinExtraPoints
            /\ Len(X) = n - sequence_length
            /\ \A k \in 1..Len(X) :
                   /\ X[k].i = sequence_length + k - 1
                   /\ X[k].from = X[k].i - sequence_length
                   /\ X[k].to = X[k].i
                   /\ X[k].y = Transform(train.scaler,
                                         Bar(call.data, X[k].i + 1))[target_feature]
            /\ Len(train.X_train) = (8 * (n - sequence_length)) \div 10
            /\ train.X_train \o train.X_val = X
            /\ train.X_train # <<>>
            /\ train.X_val # <<>>
            /\ \A a \in 1..Len(train.X_train), b \in 1..Len(train.X_val) :
                   train.X_train[a].i < train.X_val[b].i
            /\ train.info.training_samples = Len(train.X_train)
            /\ train.info.validation_samples = Len(train.X_val)

\* a table of 91 bars was split into 24 training pairs and 7 validation
\* pairs
C26_Witness ==
    /\ call.op = "train"
    /\ train.model.run # 0
    /\ call.data.n = sequence_length + MinExtraPoints + 1
    /\ Len(train.X_train) = 24
    /\ Len(train.X_val) = 7

-----------------------------------------------------------------------------
(* Properties of long forecasts, checked under SpecLongForecast *)

\* C25: the window of the forecast loop always holds sequence_length rows;
\* after k steps these are the last max(sequence_length - k, 0) rows of the
\* seed window, in their order, followed by the min(k, sequence_length)
\* rows made last, in the order they were made: the row at j from the end
\* is the one whose price is the j-th newest point.
C25_WindowSlides ==
    (pc = "p_loop" /\ call.data.n >= sequence_length) =>
        /\ Len(current_sequence) = sequence_length
        /\ \A i \in 1..Max(sequence_length - day, 0) :
               current_sequence[i] = SeedWindow[i + day]
        /\ \A j \in 1..Min(day, sequence_length) :
               InverseTransform(used.scaler,
                                current_sequence[sequence_length + 1 - j])
                   [target_feature]
                   = predictions[day + 1 - j].price

\* after 61 steps the window holds made rows only: its oldest row is the
\* row of the second step
C25_Witness ==
    /\ pc = "p_loop"
    /\ day = sequence_length + 1
    /\ Len(current_sequence) = sequence_length
    /\ Len(predictions) = sequence_length + 1
    /\ InverseTransform(used.scaler, current_sequence[1])[target_feature]
           = predictions[2].price

====
